---- MODULE Spec2Model ----
(***************************************************************************)
(* A model of sitemaptool (smx), src/main.go: the sitemap partitioning and *)
(* bookkeeping engine.  Each command invocation (smx add <url>, smx        *)
(* create) is an OS process that builds a SitemapManager (LoadDB), runs    *)
(* the command against the files of the output directory and exits.        *)
(*                                                                         *)
(* Strings that the code inspects (URLs, robots rules, the base URL) are   *)
(* sequences over a small alphabet of segments, so that strings.HasPrefix  *)
(* and strings.TrimSuffix are computed as the code computes them.  File    *)
(* names are TLA+ strings built as fmt.Sprintf builds them.  Timestamps    *)
(* (LastMod, LastUpdated, lastmod) are left out: no operation reads them.  *)
(***************************************************************************)
EXTENDS FiniteSets, Integers, Sequences, TLC

VARIABLES
    config,       \* the Config loaded by LoadConfig (fixed during a behaviour)
    robotsTxt,    \* the Disallow paths of the robots.txt at Config.RobotsPath
    fs,           \* the output directory: path -> content, for the files that exist
    tmps,         \* the temp files: tmps[path] is the content of path + ".tmp"
    pc,           \* pc[p]: where process p is in its command
    cmd,          \* cmd[p]: the command process p runs ("add" or "create")
    url,          \* url[p]: the argument of add
    DB,           \* DB[p]: sm.DB, the in-memory Database of process p
    RobotsRules,  \* RobotsRules[p]: sm.RobotsRules
    mu,           \* mu[p]: TRUE while sm.DB.mu is write-locked in process p
    fileLock,     \* fileLock[p]: TRUE while sm.fileLock is locked in process p
    caller,       \* caller[p]: who called SaveDB ("LoadDB" or the command)
    currentSitemap, \* currentSitemap[p]: AddURL's local currentSitemap
    urlset,       \* urlset[p]: AddURL's local urlset.URLs
    loadErr,      \* loadErr[p]: TRUE when AddURL's LoadSitemap returned an error
    outcome,      \* outcome[p]: how the command of p ended
    snap,         \* snap[p]: the documents on disk when p had loaded the store
    persisted,    \* persisted[p]: TRUE once p's SaveSitemap has renamed its file
    earlyCreate,  \* TRUE once create ran on a store whose current partition was not full
    hist,         \* the finished invocations, in order: [cmd, url, outcome, loadErr,
                  \* persisted, sitemap, count]
    pinging,      \* pinging[p]: TRUE once AddURL has started the goroutine that
                  \* runs PingSearchEngines
    upd           \* DownloadAndUpdate: its position, its result and the files it
                  \* works on (the executable, its .backup, the temp file)

vars == << config, robotsTxt, fs, tmps, pc, cmd, url, DB, RobotsRules, mu,
           fileLock, caller, currentSitemap, urlset, loadErr, outcome, snap,
           persisted, earlyCreate, hist, pinging, upd >>

----------------------------------------------------------------------------
(* Bounds and constants *)

\* MAX_URLS_PER_SITEMAP is 50000 in the source; the model scales it down.
MAX_URLS_PER_SITEMAP == 2

\* The number of command invocations in a behaviour.
MaxRuns == 3

\* The number of command invocations in a behaviour with concurrent commands.
MaxConcRuns == 3

\* The number of partitions in the stores GetCurrentSitemap is applied to on
\* its own.
MaxPartitions == 2

\* The OS processes that run commands.
Procs == {1, 2}

Origin == "https://example.com"

\* The URLs given to smx add.
URLs == { <<Origin, "/private", "/page">>,
          <<Origin, "/public", "/page">>,
          <<"/private", "/page">> }

\* The base_url settings: with and without a trailing slash.
BaseURLs == { <<Origin>>, <<Origin, "/">> }

DBPath == ".sitemaptool_db.json"
IndexPath == "sitemap_index.xml"

----------------------------------------------------------------------------
(* Pure functions of the code *)

\* strings.HasPrefix(s, prefix)
HasPrefix(s, prefix) ==
    /\ Len(s) >= Len(prefix)
    /\ SubSeq(s, 1, Len(prefix)) = prefix

\* strings.TrimSuffix(s, "/")
TrimSuffix(s) ==
    IF Len(s) > 0 /\ s[Len(s)] = "/" THEN SubSeq(s, 1, Len(s) - 1) ELSE s

\* ParseRobotsTxt under NewSitemapManager's guard: the rules are read only
\* when Config.RespectRobots is set.
ParseRobotsTxt(cfg, robots) ==
    IF cfg.RespectRobots THEN robots ELSE {}

\* IsURLAllowed: the whole URL string is tested against every rule.
IsURLAllowed(cfg, rules, u) ==
    IF ~cfg.RespectRobots
    THEN TRUE
    ELSE ~ \E disallowPath \in rules : HasPrefix(u, disallowPath)

\* HashURL: the hex SHA-256 of the URL string (injective on the model's URLs).
HashURL(u) == << "sha256", u >>

\* The Database LoadDB builds when there is no store file.
EmptyDB == [ Sitemaps |-> << >>, URLHashes |-> {}, CurrentSitemap |-> "" ]

\* A Database whose CurrentSitemap field is left out of the JSON document.
MarshalDB_OmitsCurrent(db) ==
    [ sitemaps |-> [ i \in 1..Len(db.Sitemaps) |->
                       [ filename |-> db.Sitemaps[i].Filename,
                         url_count |-> db.Sitemaps[i].URLCount ] ],
      url_hashes |-> [ h \in db.URLHashes |-> TRUE ],
      current_sitemap |-> "" ]

\* json.MarshalIndent(sm.DB): url_hashes is an object hash -> true.
MarshalDB(db) ==
    [ sitemaps |-> [ i \in 1..Len(db.Sitemaps) |->
                       [ filename |-> db.Sitemaps[i].Filename,
                         url_count |-> db.Sitemaps[i].URLCount ] ],
      url_hashes |-> [ h \in db.URLHashes |-> TRUE ],
      current_sitemap |-> db.CurrentSitemap ]

\* json.Unmarshal into a fresh Database, then LoadDB's nil-map repair.
UnmarshalDB(data) ==
    [ Sitemaps |-> [ i \in 1..Len(data.sitemaps) |->
                       [ Filename |-> data.sitemaps[i].filename,
                         URLCount |-> data.sitemaps[i].url_count ] ],
      URLHashes |-> { h \in DOMAIN data.url_hashes : data.url_hashes[h] },
      CurrentSitemap |-> data.current_sitemap ]

\* NeedNewSitemap testing for more than the capacity.
NeedNewSitemap_StrictlyOver(db) ==
    IF db.CurrentSitemap = ""
    THEN TRUE
    ELSE IF \E i \in 1..Len(db.Sitemaps) : db.Sitemaps[i].Filename = db.CurrentSitemap
         THEN LET i == CHOOSE j \in 1..Len(db.Sitemaps) :
                         /\ db.Sitemaps[j].Filename = db.CurrentSitemap
                         /\ \A k \in 1..(j - 1) :
                                db.Sitemaps[k].Filename # db.CurrentSitemap
              IN  db.Sitemaps[i].URLCount > MAX_URLS_PER_SITEMAP
         ELSE FALSE

\* NeedNewSitemap
NeedNewSitemap(db) ==
    IF db.CurrentSitemap = ""
    THEN TRUE
    ELSE IF \E i \in 1..Len(db.Sitemaps) : db.Sitemaps[i].Filename = db.CurrentSitemap
         THEN LET i == CHOOSE j \in 1..Len(db.Sitemaps) :
                         /\ db.Sitemaps[j].Filename = db.CurrentSitemap
                         /\ \A k \in 1..(j - 1) :
                                db.Sitemaps[k].Filename # db.CurrentSitemap
              IN  db.Sitemaps[i].URLCount >= MAX_URLS_PER_SITEMAP
         ELSE FALSE

\* CreateNewSitemap with the new record counted as holding one URL already.
CreateNewSitemap_CountsOne(db, cfg) ==
    LET sitemapNum == Len(db.Sitemaps) + 1
        filename == cfg.SitemapPrefix \o "_" \o ToString(sitemapNum) \o ".xml"
    IN  [ db EXCEPT !.Sitemaps = Append(@, [ Filename |-> filename, URLCount |-> 1 ]),
                    !.CurrentSitemap = filename ]

\* CreateNewSitemap that appends the record and leaves CurrentSitemap alone.
CreateNewSitemap_KeepsCurrent(db, cfg) ==
    LET sitemapNum == Len(db.Sitemaps) + 1
        filename == cfg.SitemapPrefix \o "_" \o ToString(sitemapNum) \o ".xml"
    IN  [ db EXCEPT !.Sitemaps = Append(@, [ Filename |-> filename, URLCount |-> 0 ]) ]

\* CreateNewSitemap numbering the partitions from 0.
CreateNewSitemap_ZeroBased(db, cfg) ==
    LET sitemapNum == Len(db.Sitemaps)
        filename == cfg.SitemapPrefix \o "_" \o ToString(sitemapNum) \o ".xml"
    IN  [ db EXCEPT !.Sitemaps = Append(@, [ Filename |-> filename, URLCount |-> 0 ]),
                    !.CurrentSitemap = filename ]

\* CreateNewSitemap: the Database after the call (the new name is its
\* CurrentSitemap).
CreateNewSitemap(db, cfg) ==
    LET sitemapNum == Len(db.Sitemaps) + 1
        filename == cfg.SitemapPrefix \o "_" \o ToString(sitemapNum) \o ".xml"
    IN  [ db EXCEPT !.Sitemaps = Append(@, [ Filename |-> filename, URLCount |-> 0 ]),
                    !.CurrentSitemap = filename ]

\* GetCurrentSitemap without the capacity test: every add rolls over.
GetCurrentSitemap_AlwaysNew(db, cfg) ==
    [ db EXCEPT !.Sitemaps = Append(@, [ Filename |-> cfg.SitemapPrefix \o "_"
                                            \o ToString(Len(db.Sitemaps) + 1) \o ".xml",
                                         URLCount |-> 0 ]),
                !.CurrentSitemap = cfg.SitemapPrefix \o "_"
                                      \o ToString(Len(db.Sitemaps) + 1) \o ".xml" ]

\* GetCurrentSitemap: the Database after the call; the name returned is its
\* CurrentSitemap.
GetCurrentSitemap(db, cfg) ==
    IF db.CurrentSitemap = "" \/ NeedNewSitemap(db)
    THEN CreateNewSitemap(db, cfg)
    ELSE db

\* UpdateSitemapInfo: the first record named filename gets the count.
UpdateSitemapInfo(db, filename, urlCount) ==
    IF \E i \in 1..Len(db.Sitemaps) : db.Sitemaps[i].Filename = filename
    THEN LET i == CHOOSE j \in 1..Len(db.Sitemaps) :
                    /\ db.Sitemaps[j].Filename = filename
                    /\ \A k \in 1..(j - 1) : db.Sitemaps[k].Filename # filename
         IN  [ db EXCEPT !.Sitemaps[i].URLCount = urlCount ]
    ELSE db

\* The URLCount the store records for filename (0 when it has no record).
CountOf(db, filename) ==
    IF \E i \in 1..Len(db.Sitemaps) : db.Sitemaps[i].Filename = filename
    THEN LET i == CHOOSE j \in 1..Len(db.Sitemaps) : db.Sitemaps[j].Filename = filename
         IN  db.Sitemaps[i].URLCount
    ELSE 0

\* The entries GenerateSitemapIndex builds from sm.DB.Sitemaps.
IndexEntries(db, cfg) ==
    [ i \in 1..Len(db.Sitemaps) |->
        [ Loc |-> TrimSuffix(cfg.BaseURL) \o << "/", db.Sitemaps[i].Filename >> ] ]

\* The URL entry AddURL builds.
NewURL(u) == [ Loc |-> u ]

----------------------------------------------------------------------------
(* Files *)

\* A complete document, and what a failed os.WriteFile can leave behind.
Complete(data) == [ ok |-> TRUE, data |-> data ]
Truncated(data) == [ ok |-> FALSE, data |-> data ]

Exists(files, path) == path \in DOMAIN files

\* os.WriteFile(path, data)
WriteFile(files, path, content) ==
    [ q \in DOMAIN files \cup {path} |-> IF q = path THEN content ELSE files[q] ]

Remove(files, path) == [ q \in DOMAIN files \ {path} |-> files[q] ]

\* LoadSitemap that never reads the document: every add starts from an
\* empty URL set.
LoadSitemap_Forgets(files, filename) == << >>

\* LoadSitemap: the URLs of the document, or none when the file is absent.
LoadSitemap(files, filename) ==
    IF Exists(files, filename) THEN files[filename].data ELSE << >>

----------------------------------------------------------------------------
(* The state machine *)

Idle(p) == pc[p] = "Idle"

\* Commands that run one after another are interchangeable as processes:
\* the first process runs them all.
Runner == CHOOSE p \in Procs : \A q \in Procs : p <= q

\* DefaultConfig: the configuration written when no config file exists.
DefaultConfig ==
    [ BaseURL |-> << Origin >>, SitemapPrefix |-> "sitemap",
      RespectRobots |-> TRUE, PingOnUpdate |-> FALSE ]

\* The configurations a user runs with: the default one, and the default one
\* with one setting edited (base_url, respect_robots or ping_on_update).
Configs ==
    { [ DefaultConfig EXCEPT !.BaseURL = b ] : b \in BaseURLs }
    \cup { [ DefaultConfig EXCEPT !.RespectRobots = r ] : r \in BOOLEAN }
    \cup { [ DefaultConfig EXCEPT !.PingOnUpdate = g ] : g \in BOOLEAN }

\* No update is running: the installed binary is at the executable path.
NoUpdate ==
    [ pc |-> "Idle", err |-> "none", goos |-> "linux", tagName |-> "",
      execPath |-> "original", backupPath |-> "absent", tempPath |-> "absent" ]


Init ==
    /\ config \in Configs
    /\ robotsTxt = { << "/private" >> }
    /\ fs = << >>
    /\ tmps = << >>
    /\ pc = [ p \in Procs |-> "Idle" ]
    /\ cmd = [ p \in Procs |-> "none" ]
    /\ url = [ p \in Procs |-> << >> ]
    /\ DB = [ p \in Procs |-> EmptyDB ]
    /\ RobotsRules = [ p \in Procs |-> {} ]
    /\ mu = [ p \in Procs |-> FALSE ]
    /\ fileLock = [ p \in Procs |-> FALSE ]
    /\ caller = [ p \in Procs |-> "none" ]
    /\ currentSitemap = [ p \in Procs |-> "" ]
    /\ urlset = [ p \in Procs |-> << >> ]
    /\ loadErr = [ p \in Procs |-> FALSE ]
    /\ outcome = [ p \in Procs |-> "none" ]
    /\ snap = [ p \in Procs |-> << >> ]
    /\ persisted = [ p \in Procs |-> FALSE ]
    /\ earlyCreate = FALSE
    /\ hist = << >>
    /\ pinging = [ p \in Procs |-> FALSE ]
    /\ upd = NoUpdate

\* The command ends: rootCmd.Execute returns (or the process dies).
End(p, how) ==
    /\ pc' = [ pc EXCEPT ![p] = "Ended" ]
    /\ outcome' = [ outcome EXCEPT ![p] = how ]

\* A command is invoked: smx add <u> (c = "add") or smx create.  Commands
\* run one after another.
Start(p, c, u) ==
    /\ p = Runner
    /\ \A q \in Procs : Idle(q)
    /\ Len(hist) < MaxRuns
    /\ c = "create" => u = << >>
    /\ c = "add" => u \in URLs
    /\ pc' = [ pc EXCEPT ![p] = "LoadDB" ]
    /\ cmd' = [ cmd EXCEPT ![p] = c ]
    /\ url' = [ url EXCEPT ![p] = u ]
    /\ snap' = [ snap EXCEPT ![p] = fs ]
    /\ UNCHANGED << config, robotsTxt, fs, tmps, DB, RobotsRules, mu, fileLock,
                    caller, currentSitemap, urlset, outcome, persisted, earlyCreate,
                    loadErr, hist, pinging, upd >>

\* The same, for commands that may run at the same time as OS processes on
\* one output directory (each with its own memory and its own mutexes).
StartConc(p, c, u) ==
    /\ Idle(p)
    /\ Len(hist) + Cardinality({ q \in Procs : ~Idle(q) }) < MaxConcRuns
    /\ c = "create" => u = << >>
    /\ c = "add" => u \in URLs
    /\ pc' = [ pc EXCEPT ![p] = "LoadDB" ]
    /\ cmd' = [ cmd EXCEPT ![p] = c ]
    /\ url' = [ url EXCEPT ![p] = u ]
    /\ snap' = [ snap EXCEPT ![p] = fs ]
    /\ UNCHANGED << config, robotsTxt, fs, tmps, DB, RobotsRules, mu, fileLock,
                    caller, currentSitemap, urlset, outcome, persisted, earlyCreate,
                    loadErr, hist, pinging, upd >>

\* LoadDB that answers a store file it cannot read or parse by starting
\* over from an empty Database and saving it.
LoadDB_ResetsOnError(p) ==
    /\ pc[p] = "LoadDB"
    /\ IF ~Exists(fs, DBPath)
       THEN /\ DB' = [ DB EXCEPT ![p] = EmptyDB ]
            /\ fileLock' = [ fileLock EXCEPT ![p] = TRUE ]
            /\ caller' = [ caller EXCEPT ![p] = "LoadDB" ]
            /\ pc' = [ pc EXCEPT ![p] = "SaveDB" ]
            /\ UNCHANGED outcome
       ELSE \E readOk \in BOOLEAN :
              IF readOk /\ fs[DBPath].ok
              THEN /\ DB' = [ DB EXCEPT ![p] = UnmarshalDB(fs[DBPath].data) ]
                   /\ pc' = [ pc EXCEPT ![p] = "NewSitemapManager" ]
                   /\ UNCHANGED << fileLock, caller, outcome >>
              ELSE /\ DB' = [ DB EXCEPT ![p] = EmptyDB ]
                   /\ fileLock' = [ fileLock EXCEPT ![p] = TRUE ]
                   /\ caller' = [ caller EXCEPT ![p] = "LoadDB" ]
                   /\ pc' = [ pc EXCEPT ![p] = "SaveDB" ]
                   /\ UNCHANGED outcome
    /\ UNCHANGED << config, robotsTxt, fs, tmps, cmd, url, RobotsRules, mu,
                    currentSitemap, urlset, snap, persisted, earlyCreate, loadErr, hist, pinging, upd >>

\* LoadDB up to its return or its call of SaveDB.
LoadDB(p) ==
    /\ pc[p] = "LoadDB"
    /\ IF ~Exists(fs, DBPath)
       THEN /\ DB' = [ DB EXCEPT ![p] = EmptyDB ]
            /\ fileLock' = [ fileLock EXCEPT ![p] = TRUE ]
            /\ caller' = [ caller EXCEPT ![p] = "LoadDB" ]
            /\ pc' = [ pc EXCEPT ![p] = "SaveDB" ]
            /\ UNCHANGED outcome
       ELSE \E readOk \in BOOLEAN :
              IF readOk /\ fs[DBPath].ok
              THEN /\ DB' = [ DB EXCEPT ![p] = UnmarshalDB(fs[DBPath].data) ]
                   /\ pc' = [ pc EXCEPT ![p] = "NewSitemapManager" ]
                   /\ UNCHANGED << fileLock, caller, outcome >>
              ELSE /\ End(p, "StoreIOError")
                   /\ UNCHANGED << DB, fileLock, caller >>
    /\ UNCHANGED << config, robotsTxt, fs, tmps, cmd, url, RobotsRules, mu,
                    currentSitemap, urlset, snap, persisted, earlyCreate, loadErr, hist, pinging, upd >>

\* SaveDB, first statement: sm.DB.mu.Lock().  sync.RWMutex is not
\* reentrant: a goroutine that already holds the lock blocks for ever.
SaveDB(p) ==
    /\ pc[p] = "SaveDB"
    /\ IF mu[p]
       THEN /\ pc' = [ pc EXCEPT ![p] = "Deadlock" ]
            /\ UNCHANGED mu
       ELSE /\ mu' = [ mu EXCEPT ![p] = TRUE ]
            /\ pc' = [ pc EXCEPT ![p] = "SaveDBWrite" ]
    /\ UNCHANGED << config, robotsTxt, fs, tmps, cmd, url, DB, RobotsRules,
                    fileLock, caller, currentSitemap, urlset, outcome, snap,
                    persisted, earlyCreate, loadErr, hist, pinging, upd >>

\* SaveDB returns err to its caller: LoadDB and the commands pass it on.
SaveDBFails(p) ==
    /\ End(p, "StoreIOError")
    /\ mu' = [ mu EXCEPT ![p] = (cmd[p] = "add" /\ caller[p] # "LoadDB") ]
    /\ fileLock' = [ fileLock EXCEPT ![p] = FALSE ]

\* SaveDB: json.MarshalIndent and os.WriteFile of the temp file.
SaveDBWrite(p) ==
    /\ pc[p] = "SaveDBWrite"
    /\ \E ok \in BOOLEAN :
         IF ok
         THEN /\ tmps' = WriteFile(tmps, DBPath, Complete(MarshalDB(DB[p])))
              /\ pc' = [ pc EXCEPT ![p] = "SaveDBRename" ]
              /\ UNCHANGED << mu, fileLock, outcome >>
         ELSE /\ tmps' = WriteFile(tmps, DBPath, Truncated(MarshalDB(DB[p])))
              /\ SaveDBFails(p)
    /\ UNCHANGED << config, robotsTxt, fs, cmd, url, DB, RobotsRules, caller,
                    currentSitemap, urlset, snap, persisted, earlyCreate, loadErr, hist, pinging, upd >>

\* SaveDB: os.Rename of the temp file over the store file, and the return
\* to LoadDB (which returns to NewSitemapManager) or to the command.
SaveDBRename(p) ==
    /\ pc[p] = "SaveDBRename"
    /\ \E ok \in BOOLEAN :
         IF ok /\ Exists(tmps, DBPath)
         THEN /\ fs' = WriteFile(fs, DBPath, tmps[DBPath])
              /\ tmps' = Remove(tmps, DBPath)
              /\ mu' = [ mu EXCEPT ![p] = FALSE ]
              /\ fileLock' = [ fileLock EXCEPT ![p] = FALSE ]
              /\ pc' = [ pc EXCEPT ![p] =
                           IF caller[p] = "LoadDB" THEN "NewSitemapManager"
                                                   ELSE "GenerateSitemapIndex" ]
              /\ UNCHANGED outcome
         ELSE /\ SaveDBFails(p)
              /\ UNCHANGED << fs, tmps >>
    /\ UNCHANGED << config, robotsTxt, cmd, url, DB, RobotsRules, caller,
                    currentSitemap, urlset, snap, persisted, earlyCreate, loadErr, hist, pinging, upd >>

\* NewSitemapManager after LoadDB: the robots rules are parsed and the
\* command's RunE goes on.
NewSitemapManager(p) ==
    /\ pc[p] = "NewSitemapManager"
    /\ RobotsRules' = [ RobotsRules EXCEPT ![p] = ParseRobotsTxt(config, robotsTxt) ]
    /\ snap' = [ snap EXCEPT ![p] = fs ]
    /\ caller' = [ caller EXCEPT ![p] = cmd[p] ]
    /\ pc' = [ pc EXCEPT ![p] = IF cmd[p] = "add" THEN "PolicyCheck"
                                                  ELSE "CreateNewSitemap" ]
    /\ UNCHANGED << config, robotsTxt, fs, tmps, cmd, url, DB, mu, fileLock,
                    currentSitemap, urlset, outcome, persisted, earlyCreate, loadErr, hist, pinging, upd >>

\* AddURL: sm.DB.mu.Lock() (held until AddURL returns) and the robots check.
PolicyCheck(p) ==
    /\ pc[p] = "PolicyCheck"
    /\ ~mu[p]
    /\ mu' = [ mu EXCEPT ![p] = TRUE ]
    /\ IF IsURLAllowed(config, RobotsRules[p], url[p])
       THEN /\ pc' = [ pc EXCEPT ![p] = "DuplicateCheck" ]
            /\ UNCHANGED outcome
       ELSE End(p, "PolicyRejected")
    /\ UNCHANGED << config, robotsTxt, fs, tmps, cmd, url, DB, RobotsRules,
                    fileLock, caller, currentSitemap, urlset, snap, persisted, earlyCreate, loadErr, hist, pinging, upd >>

\* AddURL: the duplicate check against sm.DB.URLHashes.
DuplicateCheck(p) ==
    /\ pc[p] = "DuplicateCheck"
    /\ IF HashURL(url[p]) \in DB[p].URLHashes
       THEN End(p, "DuplicateURL")
       ELSE /\ pc' = [ pc EXCEPT ![p] = "PartitionResolve" ]
            /\ UNCHANGED outcome
    /\ UNCHANGED << config, robotsTxt, fs, tmps, cmd, url, DB, RobotsRules, mu,
                    fileLock, caller, currentSitemap, urlset, snap, persisted, earlyCreate, loadErr, hist, pinging, upd >>

\* AddURL: currentSitemap, err := sm.GetCurrentSitemap()
PartitionResolve(p) ==
    /\ pc[p] = "PartitionResolve"
    /\ DB' = [ DB EXCEPT ![p] = GetCurrentSitemap(DB[p], config) ]
    /\ currentSitemap' = [ currentSitemap EXCEPT ![p] = DB'[p].CurrentSitemap ]
    /\ pc' = [ pc EXCEPT ![p] = "PartitionAppend" ]
    /\ UNCHANGED << config, robotsTxt, fs, tmps, cmd, url, RobotsRules, mu,
                    fileLock, caller, urlset, outcome, snap, persisted, earlyCreate, loadErr, hist, pinging, upd >>

\* AddURL: LoadSitemap (an error gives an empty urlset), the new entry is
\* appended and the hash recorded, all in memory.
PartitionAppend(p) ==
    /\ pc[p] = "PartitionAppend"
    /\ \E readOk \in BOOLEAN :
         LET err == ~readOk /\ Exists(fs, currentSitemap[p])
             loaded == IF err THEN << >> ELSE LoadSitemap(fs, currentSitemap[p])
         IN  /\ urlset' = [ urlset EXCEPT ![p] = Append(loaded, NewURL(url[p])) ]
             /\ loadErr' = [ loadErr EXCEPT ![p] = err ]
    /\ DB' = [ DB EXCEPT ![p].URLHashes = @ \cup { HashURL(url[p]) } ]
    /\ pc' = [ pc EXCEPT ![p] = "SaveSitemapWrite" ]
    /\ UNCHANGED << config, robotsTxt, fs, tmps, cmd, url, RobotsRules, mu,
                    fileLock, caller, currentSitemap, outcome, snap, persisted, earlyCreate, hist, pinging, upd >>

\* SaveSitemap writing the partition document in place: a failed write
\* leaves a truncated document at the final path.
SaveSitemapWrite_InPlace(p) ==
    /\ pc[p] = "SaveSitemapWrite"
    /\ ~fileLock[p]
    /\ \E ok \in BOOLEAN :
         IF ok
         THEN /\ tmps' = WriteFile(tmps, currentSitemap[p], Complete(urlset[p]))
              /\ fs' = fs
              /\ fileLock' = [ fileLock EXCEPT ![p] = TRUE ]
              /\ pc' = [ pc EXCEPT ![p] = "SaveSitemapRename" ]
              /\ UNCHANGED outcome
         ELSE /\ fs' = WriteFile(fs, currentSitemap[p], Truncated(urlset[p]))
              /\ tmps' = tmps
              /\ UNCHANGED fileLock
              /\ End(p, "PartitionIOError")
    /\ UNCHANGED << config, robotsTxt, cmd, url, DB, RobotsRules, mu, caller,
                    currentSitemap, urlset, loadErr, snap, persisted, earlyCreate, hist, pinging, upd >>

\* SaveSitemap: sm.fileLock.Lock(), xml.MarshalIndent and os.WriteFile of
\* the temp file.
SaveSitemapWrite(p) ==
    /\ pc[p] = "SaveSitemapWrite"
    /\ ~fileLock[p]
    /\ \E ok \in BOOLEAN :
         IF ok
         THEN /\ tmps' = WriteFile(tmps, currentSitemap[p], Complete(urlset[p]))
              /\ fileLock' = [ fileLock EXCEPT ![p] = TRUE ]
              /\ pc' = [ pc EXCEPT ![p] = "SaveSitemapRename" ]
              /\ UNCHANGED outcome
         ELSE /\ tmps' = WriteFile(tmps, currentSitemap[p], Truncated(urlset[p]))
              /\ UNCHANGED fileLock
              /\ End(p, "PartitionIOError")
    /\ UNCHANGED << config, robotsTxt, fs, cmd, url, DB, RobotsRules, mu, caller,
                    currentSitemap, urlset, snap, persisted, earlyCreate, loadErr, hist, pinging, upd >>

\* SaveSitemap: os.Rename over the partition document.
SaveSitemapRename(p) ==
    /\ pc[p] = "SaveSitemapRename"
    /\ fileLock' = [ fileLock EXCEPT ![p] = FALSE ]
    /\ \E ok \in BOOLEAN :
         IF ok /\ Exists(tmps, currentSitemap[p])
         THEN /\ fs' = WriteFile(fs, currentSitemap[p], tmps[currentSitemap[p]])
              /\ tmps' = Remove(tmps, currentSitemap[p])
              /\ persisted' = [ persisted EXCEPT ![p] = TRUE ]
              /\ pc' = [ pc EXCEPT ![p] = "StoreUpdate" ]
              /\ UNCHANGED outcome
         ELSE /\ End(p, "PartitionIOError")
              /\ UNCHANGED << fs, tmps, persisted >>
    /\ UNCHANGED << config, robotsTxt, cmd, url, DB, RobotsRules, mu, caller,
                    currentSitemap, urlset, snap, earlyCreate, loadErr, hist, pinging, upd >>

\* AddURL: sm.UpdateSitemapInfo(currentSitemap, len(urlset.URLs)), then the
\* call of SaveDB.
StoreUpdate(p) ==
    /\ pc[p] = "StoreUpdate"
    /\ DB' = [ DB EXCEPT ![p] = UpdateSitemapInfo(DB[p], currentSitemap[p], Len(urlset[p])) ]
    /\ pc' = [ pc EXCEPT ![p] = "SaveDB" ]
    /\ UNCHANGED << config, robotsTxt, fs, tmps, cmd, url, RobotsRules, mu,
                    fileLock, caller, currentSitemap, urlset, outcome, snap,
                    persisted, earlyCreate, loadErr, hist, pinging, upd >>

\* createCmd going through GetCurrentSitemap: nothing is created while the
\* current partition is below capacity.
CreateCmd_ViaGetCurrent(p) ==
    /\ pc[p] = "CreateNewSitemap"
    /\ DB' = [ DB EXCEPT ![p] = GetCurrentSitemap(DB[p], config) ]
    /\ earlyCreate' = (earlyCreate \/ ~NeedNewSitemap(DB[p]))
    /\ pc' = [ pc EXCEPT ![p] = "SaveDB" ]
    /\ UNCHANGED << config, robotsTxt, fs, tmps, cmd, url, RobotsRules, mu,
                    fileLock, caller, currentSitemap, urlset, outcome, snap,
                    persisted, loadErr, hist, pinging, upd >>

\* createCmd: sm.CreateNewSitemap(), then the call of SaveDB.
CreateCmd(p) ==
    /\ pc[p] = "CreateNewSitemap"
    /\ DB' = [ DB EXCEPT ![p] = CreateNewSitemap(DB[p], config) ]
    /\ earlyCreate' = (earlyCreate \/ ~NeedNewSitemap(DB[p]))
    /\ pc' = [ pc EXCEPT ![p] = "SaveDB" ]
    /\ UNCHANGED << config, robotsTxt, fs, tmps, cmd, url, RobotsRules, mu,
                    fileLock, caller, currentSitemap, urlset, outcome, snap,
                    persisted, loadErr, hist, pinging, upd >>

\* GenerateSitemapIndex: the index is built from sm.DB.Sitemaps and written
\* to the temp file.
GenerateSitemapIndex(p) ==
    /\ pc[p] = "GenerateSitemapIndex"
    /\ \E ok \in BOOLEAN :
         IF ok
         THEN /\ tmps' = WriteFile(tmps, IndexPath, Complete(IndexEntries(DB[p], config)))
              /\ pc' = [ pc EXCEPT ![p] = "IndexRename" ]
              /\ UNCHANGED outcome
         ELSE /\ tmps' = WriteFile(tmps, IndexPath, Truncated(IndexEntries(DB[p], config)))
              /\ End(p, "IndexIOError")
    /\ UNCHANGED << config, robotsTxt, fs, cmd, url, DB, RobotsRules, mu, fileLock,
                    caller, currentSitemap, urlset, snap, persisted, earlyCreate, loadErr, hist, pinging, upd >>

\* GenerateSitemapIndex: os.Rename over sitemap_index.xml.  AddURL then
\* starts PingSearchEngines in a goroutine when Config.PingOnUpdate is set,
\* and the command returns nil without waiting for it.
IndexRename(p) ==
    /\ pc[p] = "IndexRename"
    /\ \E ok \in BOOLEAN :
         IF ok /\ Exists(tmps, IndexPath)
         THEN /\ fs' = WriteFile(fs, IndexPath, tmps[IndexPath])
              /\ tmps' = Remove(tmps, IndexPath)
              /\ pinging' = [ pinging EXCEPT ![p] =
                                caller[p] = "add" /\ config.PingOnUpdate ]
              /\ End(p, "Done")
         ELSE /\ End(p, "IndexIOError")
              /\ UNCHANGED << fs, tmps, pinging >>
    /\ UNCHANGED << config, robotsTxt, cmd, url, DB, RobotsRules, mu, fileLock,
                    caller, currentSitemap, urlset, snap, persisted, earlyCreate, loadErr, hist, upd >>

\* The main goroutine is blocked in Lock and there is no other goroutine:
\* the Go runtime ends the process ("all goroutines are asleep - deadlock!"),
\* or the hung process is killed.
RuntimeAbort(p) ==
    /\ pc[p] = "Deadlock"
    /\ End(p, "Fatal")
    /\ UNCHANGED << config, robotsTxt, fs, tmps, cmd, url, DB, RobotsRules, mu,
                    fileLock, caller, currentSitemap, urlset, snap, persisted, earlyCreate, loadErr, hist, pinging, upd >>

\* The process exits: its memory is gone, the files stay.
Exit(p) ==
    /\ pc[p] = "Ended"
    /\ hist' = Append(hist, [ cmd |-> cmd[p], url |-> url[p], outcome |-> outcome[p],
                              loadErr |-> loadErr[p], persisted |-> persisted[p],
                              sitemap |-> currentSitemap[p],
                              count |-> CountOf(DB[p], currentSitemap[p]) ])
    /\ pc' = [ pc EXCEPT ![p] = "Idle" ]
    /\ cmd' = [ cmd EXCEPT ![p] = "none" ]
    /\ url' = [ url EXCEPT ![p] = << >> ]
    /\ DB' = [ DB EXCEPT ![p] = EmptyDB ]
    /\ RobotsRules' = [ RobotsRules EXCEPT ![p] = {} ]
    /\ mu' = [ mu EXCEPT ![p] = FALSE ]
    /\ fileLock' = [ fileLock EXCEPT ![p] = FALSE ]
    /\ caller' = [ caller EXCEPT ![p] = "none" ]
    /\ currentSitemap' = [ currentSitemap EXCEPT ![p] = "" ]
    /\ urlset' = [ urlset EXCEPT ![p] = << >> ]
    /\ loadErr' = [ loadErr EXCEPT ![p] = FALSE ]
    /\ outcome' = [ outcome EXCEPT ![p] = "none" ]
    /\ snap' = [ snap EXCEPT ![p] = << >> ]
    /\ persisted' = [ persisted EXCEPT ![p] = FALSE ]
    /\ pinging' = [ pinging EXCEPT ![p] = FALSE ]
    /\ UNCHANGED << config, robotsTxt, fs, tmps, earlyCreate, upd >>

Next ==
    \E p \in Procs :
        \/ \E u \in URLs : Start(p, "add", u)
        \/ Start(p, "create", << >>)
        \/ LoadDB(p)
        \/ SaveDB(p)
        \/ SaveDBWrite(p)
        \/ SaveDBRename(p)
        \/ NewSitemapManager(p)
        \/ PolicyCheck(p)
        \/ DuplicateCheck(p)
        \/ PartitionResolve(p)
        \/ PartitionAppend(p)
        \/ SaveSitemapWrite(p)
        \/ SaveSitemapRename(p)
        \/ StoreUpdate(p)
        \/ CreateCmd(p)
        \/ GenerateSitemapIndex(p)
        \/ IndexRename(p)
        \/ RuntimeAbort(p)
        \/ Exit(p)

Spec == Init /\ [][Next]_vars

\* GetCurrentSitemap on its own: AddURL stands at its call of
\* GetCurrentSitemap with a store of up to MaxPartitions partitions loaded,
\* named as CreateNewSitemap names them, with any counts up to one over the
\* capacity and any of them current.
StoreInputs ==
    UNION { { [ Sitemaps |-> [ k \in 1..n |->
                                [ Filename |-> "sitemap_" \o ToString(k) \o ".xml",
                                  URLCount |-> counts[k] ] ],
                URLHashes |-> {},
                CurrentSitemap |-> IF n = 0 THEN ""
                                   ELSE "sitemap_" \o ToString(c) \o ".xml" ] :
              counts \in [ 1..n -> 0..(MAX_URLS_PER_SITEMAP + 1) ],
              c \in (IF n = 0 THEN {0} ELSE 1..n) } :
            n \in 0..MaxPartitions }

InitResolve ==
    /\ config \in [ BaseURL : BaseURLs, SitemapPrefix : {"sitemap"},
                    RespectRobots : BOOLEAN, PingOnUpdate : BOOLEAN ]
    /\ robotsTxt = { << "/private" >> }
    /\ \E db \in StoreInputs :
          /\ DB = [ p \in Procs |-> IF p = Runner THEN db ELSE EmptyDB ]
          /\ fs = WriteFile(<< >>, DBPath, Complete(MarshalDB(db)))
          /\ snap = [ p \in Procs |-> IF p = Runner THEN fs ELSE << >> ]
    /\ tmps = << >>
    /\ pc = [ p \in Procs |-> IF p = Runner THEN "PartitionResolve" ELSE "Idle" ]
    /\ cmd = [ p \in Procs |-> IF p = Runner THEN "add" ELSE "none" ]
    /\ \E u \in URLs : url = [ p \in Procs |-> IF p = Runner THEN u ELSE << >> ]
    /\ RobotsRules = [ p \in Procs |-> {} ]
    /\ mu = [ p \in Procs |-> p = Runner ]
    /\ fileLock = [ p \in Procs |-> FALSE ]
    /\ caller = [ p \in Procs |-> IF p = Runner THEN "add" ELSE "none" ]
    /\ currentSitemap = [ p \in Procs |-> "" ]
    /\ urlset = [ p \in Procs |-> << >> ]
    /\ loadErr = [ p \in Procs |-> FALSE ]
    /\ outcome = [ p \in Procs |-> "none" ]
    /\ persisted = [ p \in Procs |-> FALSE ]
    /\ earlyCreate = FALSE
    /\ hist = << >>
    /\ pinging = [ p \in Procs |-> FALSE ]
    /\ upd = NoUpdate

NextResolve == \E p \in Procs : PartitionResolve(p)

SpecResolve == InitResolve /\ [][NextResolve]_vars

\* Commands as concurrent OS processes.
NextConc ==
    \E p \in Procs :
        \/ \E u \in URLs : StartConc(p, "add", u)
        \/ StartConc(p, "create", << >>)
        \/ LoadDB(p)
        \/ SaveDB(p)
        \/ SaveDBWrite(p)
        \/ SaveDBRename(p)
        \/ NewSitemapManager(p)
        \/ PolicyCheck(p)
        \/ DuplicateCheck(p)
        \/ PartitionResolve(p)
        \/ PartitionAppend(p)
        \/ SaveSitemapWrite(p)
        \/ SaveSitemapRename(p)
        \/ StoreUpdate(p)
        \/ CreateCmd(p)
        \/ GenerateSitemapIndex(p)
        \/ IndexRename(p)
        \/ RuntimeAbort(p)
        \/ Exit(p)

\* Concurrent commands start from the configuration whose base_url has no
\* trailing slash.
InitConc == Init /\ config.BaseURL = << Origin >>

SpecConc == InitConc /\ [][NextConc]_vars

----------------------------------------------------------------------------
(* What the claims speak about *)

\* The partition documents among the files.
PartitionNames(files) == DOMAIN files \ { DBPath, IndexPath }

\* The places (document, position) of the entries whose location is u.
EntriesOf(files, u) ==
    { << n, i >> \in PartitionNames(files) \X (1..MaxRuns) :
        i <= Len(files[n].data) /\ files[n].data[i].Loc = u }

\* The partition documents that hold an entry whose location is u.
DocumentsWith(files, u) ==
    { n \in PartitionNames(files) : \E i \in 1..Len(files[n].data) : files[n].data[i].Loc = u }

RECURSIVE SumLen(_, _)
SumLen(files, names) ==
    IF names = {} THEN 0
    ELSE LET n == CHOOSE m \in names : TRUE
         IN  Len(files[n].data) + SumLen(files, names \ {n})

\* The number of entries over all partition documents.
TotalEntries(files) == SumLen(files, PartitionNames(files))

RECURSIVE SumCounts(_)
SumCounts(sitemaps) ==
    IF sitemaps = << >> THEN 0
    ELSE Head(sitemaps).URLCount + SumCounts(Tail(sitemaps))

StoreOnDisk(files) == Exists(files, DBPath)

\* The store as a process would load it.
PersistedDB(files) == UnmarshalDB(files[DBPath].data)

\* The store states there are: the persisted one and those in memory.
Stores ==
    { DB[p] : p \in Procs } \cup
    ( IF StoreOnDisk(fs) THEN { PersistedDB(fs) } ELSE {} )

Ended(p) == pc[p] = "Ended"

IOErrors == { "StoreIOError", "PartitionIOError", "IndexIOError" }

\* An add whose URL passed both checks and whose entry reached the partition
\* document.
Accepted(p) == cmd[p] = "add" /\ persisted[p]

\* The path of a URL: what follows the origin.
PathOf(u) == IF Len(u) > 0 /\ u[1] = Origin THEN Tail(u) ELSE u

\* The exclusion predicate of the policy filter: the URL's path starts with
\* a disallowed path prefix.
Excluded(u) == \E d \in robotsTxt : HasPrefix(PathOf(u), d)

\* At most one partition is below capacity, and it is the current one.
OnePartitionOpen(db) ==
    \A i \in 1..Len(db.Sitemaps) :
        db.Sitemaps[i].URLCount < MAX_URLS_PER_SITEMAP
            => db.Sitemaps[i].Filename = db.CurrentSitemap

\* The index document the store's partitions call for.
IndexFor(db) ==
    [ i \in 1..Len(db.Sitemaps) |->
        [ Loc |-> TrimSuffix(config.BaseURL) \o << "/" >> \o << db.Sitemaps[i].Filename >> ] ]

----------------------------------------------------------------------------
(* Threads of one process on one manager.  Here the members of Procs are
   goroutines that share the manager: mu[t] and fileLock[t] say that t
   holds sm.DB.mu or sm.fileLock, and a Lock goes through only while no
   goroutine holds the mutex.  pc[t] is "<method>.Lock" while t waits in a
   Lock call, caller[t] the method that called the one t is in. *)

Methods == { "LoadDB", "SaveDB", "SaveSitemap", "AddURL" }

ThreadFrame ==
    UNCHANGED << config, robotsTxt, tmps, url, DB, RobotsRules, currentSitemap,
                 urlset, loadErr, outcome, snap, persisted, earlyCreate, hist,
                 pinging, upd >>

InitThreads ==
    /\ Init
    /\ config.BaseURL = << Origin >> /\ ~config.RespectRobots /\ ~config.PingOnUpdate

\* A goroutine calls a method of the manager.
Call(t, method) ==
    /\ pc[t] = "Idle"
    /\ method \in Methods
    /\ cmd' = [ cmd EXCEPT ![t] = method ]
    /\ pc' = [ pc EXCEPT ![t] = method \o ".Lock" ]
    /\ UNCHANGED << fs, mu, fileLock, caller >>
    /\ ThreadFrame

\* The method returns to the goroutine's own code.
Return(t) ==
    /\ pc' = [ pc EXCEPT ![t] = "Idle" ]
    /\ cmd' = [ cmd EXCEPT ![t] = "none" ]
    /\ caller' = [ caller EXCEPT ![t] = "none" ]

\* LoadDB: sm.fileLock.Lock(), then os.Stat: without a store file LoadDB
\* builds an empty Database and calls SaveDB, fileLock still held.
LoadDBLock(t) ==
    /\ pc[t] = "LoadDB.Lock"
    /\ \A q \in Procs : ~fileLock[q]
    /\ fileLock' = [ fileLock EXCEPT ![t] = TRUE ]
    /\ IF ~Exists(fs, DBPath)
       THEN /\ caller' = [ caller EXCEPT ![t] = "LoadDB" ]
            /\ pc' = [ pc EXCEPT ![t] = "SaveDB.Lock" ]
       ELSE /\ pc' = [ pc EXCEPT ![t] = "LoadDB.Read" ]
            /\ UNCHANGED caller
    /\ UNCHANGED << fs, mu, cmd >>
    /\ ThreadFrame

\* LoadDB: the store file is read and parsed, fileLock is released on
\* return.
LoadDBRead(t) ==
    /\ pc[t] = "LoadDB.Read"
    /\ fileLock' = [ fileLock EXCEPT ![t] = FALSE ]
    /\ Return(t)
    /\ UNCHANGED << fs, mu >>
    /\ ThreadFrame

\* SaveDB: sm.DB.mu.Lock()
SaveDBLock(t) ==
    /\ pc[t] = "SaveDB.Lock"
    /\ \A q \in Procs : ~mu[q]
    /\ mu' = [ mu EXCEPT ![t] = TRUE ]
    /\ pc' = [ pc EXCEPT ![t] = "SaveDB.Write" ]
    /\ UNCHANGED << fs, fileLock, cmd, caller >>
    /\ ThreadFrame

\* SaveDB: the store is written and renamed, DB.mu is released on return;
\* LoadDB then returns too and releases fileLock.
SaveDBBody(t) ==
    /\ pc[t] = "SaveDB.Write"
    /\ \E ok \in BOOLEAN :
          fs' = IF ok THEN WriteFile(fs, DBPath, Complete(MarshalDB(DB[t]))) ELSE fs
    /\ mu' = [ mu EXCEPT ![t] = FALSE ]
    /\ fileLock' = [ fileLock EXCEPT ![t] = IF caller[t] = "LoadDB" THEN FALSE ELSE @ ]
    /\ Return(t)
    /\ ThreadFrame

\* SaveSitemap: sm.fileLock.Lock()
SaveSitemapLock(t) ==
    /\ pc[t] = "SaveSitemap.Lock"
    /\ \A q \in Procs : ~fileLock[q]
    /\ fileLock' = [ fileLock EXCEPT ![t] = TRUE ]
    /\ pc' = [ pc EXCEPT ![t] = "SaveSitemap.Write" ]
    /\ UNCHANGED << fs, mu, cmd, caller >>
    /\ ThreadFrame

\* SaveSitemap: the document is written and renamed, fileLock is released
\* on return; AddURL goes on to UpdateSitemapInfo and its call of SaveDB.
SaveSitemapBody(t) ==
    /\ pc[t] = "SaveSitemap.Write"
    /\ \E ok \in BOOLEAN :
          fs' = IF ok THEN WriteFile(fs, config.SitemapPrefix \o "_1.xml",
                                     Complete(urlset[t]))
                      ELSE fs
    /\ fileLock' = [ fileLock EXCEPT ![t] = FALSE ]
    /\ IF caller[t] = "AddURL"
       THEN /\ pc' = [ pc EXCEPT ![t] = "SaveDB.Lock" ]
            /\ UNCHANGED << cmd, caller >>
       ELSE Return(t)
    /\ UNCHANGED mu
    /\ ThreadFrame

\* AddURL: sm.DB.mu.Lock(), held until AddURL returns; the checks and the
\* append are in memory, then AddURL calls SaveSitemap.
AddURLLock(t) ==
    /\ pc[t] = "AddURL.Lock"
    /\ \A q \in Procs : ~mu[q]
    /\ mu' = [ mu EXCEPT ![t] = TRUE ]
    /\ caller' = [ caller EXCEPT ![t] = "AddURL" ]
    /\ pc' = [ pc EXCEPT ![t] = "SaveSitemap.Lock" ]
    /\ UNCHANGED << fs, fileLock, cmd >>
    /\ ThreadFrame

NextThreads ==
    \E t \in Procs :
        \/ \E method \in Methods : Call(t, method)
        \/ LoadDBLock(t)
        \/ LoadDBRead(t)
        \/ SaveDBLock(t)
        \/ SaveDBBody(t)
        \/ SaveSitemapLock(t)
        \/ SaveSitemapBody(t)
        \/ AddURLLock(t)

SpecThreads == InitThreads /\ [][NextThreads]_vars

----------------------------------------------------------------------------

(* DownloadAndUpdate.  A file is named by what it holds: "absent", the
   installed binary "original", a backup left by an earlier update "stale",
   the release's binary "new", the body of a response that is no binary
   "errorpage", an "empty" or "partial" temp file. *)

GOOS == { "linux", "darwin", "windows", "plan9" }

\* What the download's response body may be: client.Get reports transport
\* errors only, the status code is not looked at.
Bodies == { "new", "errorpage" }

UpdateFrame ==
    UNCHANGED << config, robotsTxt, fs, tmps, pc, cmd, url, DB, RobotsRules, mu,
                 fileLock, caller, currentSitemap, urlset, loadErr, outcome, snap,
                 persisted, earlyCreate, hist, pinging >>

InitUpdate ==
    /\ Init
    /\ config.BaseURL = << Origin >> /\ ~config.RespectRobots /\ ~config.PingOnUpdate

\* DownloadAndUpdate returns e from the state u; the deferred
\* os.Remove(tempPath) runs, its error unseen.
Returns(u, e) ==
    \E removed \in BOOLEAN :
        upd' = [ u EXCEPT !.pc = "Returned", !.err = e,
                          !.tempPath = IF removed THEN "absent" ELSE @ ]

\* smx update: DownloadAndUpdate is called, on some platform, with or
\* without a .backup file left over.
UpdateCmd ==
    /\ upd.pc = "Idle"
    /\ \E g \in GOOS, stale \in BOOLEAN :
          upd' = [ upd EXCEPT !.pc = "GetRelease", !.goos = g,
                              !.backupPath = IF stale THEN "stale" ELSE "absent" ]
    /\ UpdateFrame

\* The latest release is fetched, read and parsed.
GetRelease ==
    /\ upd.pc = "GetRelease"
    /\ \E ok \in BOOLEAN, tag \in { "current", "newer" } :
          IF ok THEN upd' = [ upd EXCEPT !.pc = "CheckVersion", !.tagName = tag ]
                ELSE Returns(upd, "error")
    /\ UpdateFrame

\* The version test, the platform switch and the search for the asset.
CheckVersion ==
    /\ upd.pc = "CheckVersion"
    /\ IF upd.tagName = "current"
       THEN Returns(upd, "nil")
       ELSE IF upd.goos \notin { "linux", "darwin", "windows" }
            THEN Returns(upd, "error")
            ELSE \E hasAsset \in BOOLEAN :
                    IF hasAsset THEN upd' = [ upd EXCEPT !.pc = "Download" ]
                                ELSE Returns(upd, "error")
    /\ UpdateFrame

\* client.Get(downloadURL) and os.Executable()
Download ==
    /\ upd.pc = "Download"
    /\ \E ok \in BOOLEAN :
          IF ok THEN upd' = [ upd EXCEPT !.pc = "CreateTemp" ]
                ELSE Returns(upd, "error")
    /\ UpdateFrame

\* os.CreateTemp and defer os.Remove(tempPath)
CreateTemp ==
    /\ upd.pc = "CreateTemp"
    /\ \E ok \in BOOLEAN :
          IF ok THEN upd' = [ upd EXCEPT !.pc = "Copy", !.tempPath = "empty" ]
                ELSE Returns(upd, "error")
    /\ UpdateFrame

\* io.Copy(tempFile, resp.Body)
Copy ==
    /\ upd.pc = "Copy"
    /\ \E ok \in BOOLEAN, body \in Bodies :
          IF ok THEN upd' = [ upd EXCEPT !.pc = "Chmod", !.tempPath = body ]
                ELSE Returns([ upd EXCEPT !.tempPath = "partial" ], "error")
    /\ UpdateFrame

\* os.Chmod(tempPath, 0755), not on windows
Chmod ==
    /\ upd.pc = "Chmod"
    /\ \E ok \in BOOLEAN :
          IF ok \/ upd.goos = "windows"
          THEN upd' = [ upd EXCEPT !.pc = "Backup" ]
          ELSE Returns(upd, "error")
    /\ UpdateFrame

\* os.Rename(execPath, backupPath)
Backup ==
    /\ upd.pc = "Backup"
    /\ \E ok \in BOOLEAN :
          IF ok THEN upd' = [ upd EXCEPT !.pc = "Replace",
                                         !.backupPath = upd.execPath,
                                         !.execPath = "absent" ]
                ELSE Returns(upd, "error")
    /\ UpdateFrame

\* os.Rename(tempPath, execPath); when it fails, os.Rename(backupPath,
\* execPath), whose error is not looked at, and the error is returned.
Replace ==
    /\ upd.pc = "Replace"
    /\ \E ok \in BOOLEAN :
          IF ok
          THEN upd' = [ upd EXCEPT !.pc = "RemoveBackup",
                                   !.execPath = upd.tempPath,
                                   !.tempPath = "absent" ]
          ELSE \E restored \in BOOLEAN :
                  IF restored
                  THEN Returns([ upd EXCEPT !.execPath = upd.backupPath,
                                            !.backupPath = "absent" ], "error")
                  ELSE Returns(upd, "error")
    /\ UpdateFrame

\* os.Remove(backupPath), whose error is not looked at; return nil.
RemoveBackup ==
    /\ upd.pc = "RemoveBackup"
    /\ \E ok \in BOOLEAN :
          IF ok THEN Returns([ upd EXCEPT !.backupPath = "absent" ], "nil")
                ELSE Returns(upd, "nil")
    /\ UpdateFrame

NextUpdate ==
    \/ UpdateCmd
    \/ GetRelease
    \/ CheckVersion
    \/ Download
    \/ CreateTemp
    \/ Copy
    \/ Chmod
    \/ Backup
    \/ Replace
    \/ RemoveBackup

SpecUpdate == InitUpdate /\ [][NextUpdate]_vars

----------------------------------------------------------------------------

(* The claims *)

\* C1: after any sequence of add invocations, no URL is the location of
\* more than one entry across all partition documents on disk.
C1_NoDuplicateEntries ==
    ( /\ \A p \in Procs : Idle(p)
      /\ \A i \in 1..Len(hist) : hist[i].cmd = "add" /\ ~hist[i].loadErr )
    => \A u \in URLs : Cardinality(EntriesOf(fs, u)) <= 1

\* C2: every add invocation terminates: AddURL reaches Done or fails with
\* an error; it never blocks on the store mutex DB.mu that it holds itself,
\* and the process is never ended by the runtime instead.
C2_AddNeverBlocks ==
    \A p \in Procs :
        cmd[p] = "add" =>
            /\ pc[p] # "Deadlock"
            /\ Ended(p) => outcome[p] # "Fatal"

\* C3: for every URL an add invocation accepts, after the operation the
\* persisted store's seen_hashes holds the URL's hash and exactly one
\* partition document holds an entry whose location is the URL.
C3_AcceptedIsRecorded ==
    \A p \in Procs :
        ( Ended(p) /\ Accepted(p) /\ outcome[p] \notin IOErrors /\ ~loadErr[p] )
        => /\ StoreOnDisk(fs)
           /\ HashURL(url[p]) \in PersistedDB(fs).URLHashes
           /\ Cardinality(DocumentsWith(fs, url[p])) = 1

\* C4: adding the same allowed URL in two successive add invocations gives
\* success the first time and DuplicateURL the second time, and the second
\* invocation leaves the total entry count unchanged, in the partition
\* documents and in the store.
C4_SecondAddIsDuplicate ==
    \A p \in Procs :
        ( /\ Ended(p) /\ cmd[p] = "add"
          /\ Len(hist) = 1
          /\ hist[1].cmd = "add" /\ hist[1].url = url[p]
          /\ IsURLAllowed(config, ParseRobotsTxt(config, robotsTxt), url[p])
          /\ hist[1].outcome \notin IOErrors /\ ~hist[1].loadErr
          /\ outcome[p] \notin IOErrors /\ ~loadErr[p] )
        => /\ hist[1].outcome = "Done"
           /\ outcome[p] = "DuplicateURL"
           /\ TotalEntries(fs) = TotalEntries(snap[p])
           /\ SumCounts(PersistedDB(fs).Sitemaps) = SumCounts(PersistedDB(snap[p]).Sitemaps)

\* C5: from a fresh store, after CAPACITY + 1 distinct allowed URLs were
\* added one invocation after another, exactly 2 partitions exist, the
\* first with exactly CAPACITY entries and the second with exactly 1.
C5_RollsOverAtCapacity ==
    ( /\ \A p \in Procs : Idle(p)
      /\ Len(hist) = MAX_URLS_PER_SITEMAP + 1
      /\ \A i \in 1..Len(hist) :
            /\ hist[i].cmd = "add"
            /\ hist[i].outcome \notin IOErrors /\ ~hist[i].loadErr
            /\ IsURLAllowed(config, ParseRobotsTxt(config, robotsTxt), hist[i].url)
      /\ \A i, j \in 1..Len(hist) : hist[i].url = hist[j].url => i = j )
    => /\ StoreOnDisk(fs)
       /\ Len(PersistedDB(fs).Sitemaps) = 2
       /\ PersistedDB(fs).Sitemaps[1].URLCount = MAX_URLS_PER_SITEMAP
       /\ PersistedDB(fs).Sitemaps[2].URLCount = 1
       /\ Cardinality(PartitionNames(fs)) = 2
       /\ \A i \in 1..2 :
            /\ Exists(fs, PersistedDB(fs).Sitemaps[i].Filename)
            /\ Len(fs[PersistedDB(fs).Sitemaps[i].Filename].data)
                 = PersistedDB(fs).Sitemaps[i].URLCount

\* C6: after any add that put its entry into a partition document, and
\* after any create, the index document on disk holds exactly one entry per
\* partition of the persisted store, in creation order, each located at
\* base_url + "/" + the partition's name.
C6_IndexListsPartitions ==
    \A p \in Procs :
        ( /\ Ended(p)
          /\ outcome[p] \notin IOErrors
          /\ Accepted(p) \/ cmd[p] = "create" )
        => /\ StoreOnDisk(fs)
           /\ Exists(fs, IndexPath)
           /\ fs[IndexPath].data = IndexFor(PersistedDB(fs))

\* C7: with robots rules respected, an add is rejected with PolicyRejected
\* exactly when the exclusion predicate (a disallowed path prefix is a
\* prefix of the URL's path) matches the URL: with /private disallowed,
\* https://example.com/private/page is rejected and
\* https://example.com/public/page is not.
C7_RejectedIffExcluded ==
    \A p \in Procs :
        ( /\ cmd[p] = "add"
          /\ config.RespectRobots
          /\ pc[p] \notin { "LoadDB", "SaveDB", "SaveDBWrite", "SaveDBRename",
                            "NewSitemapManager", "PolicyCheck" }
          /\ ~(Ended(p) /\ outcome[p] = "StoreIOError") )
        => ( (Ended(p) /\ outcome[p] = "PolicyRejected") <=> Excluded(url[p]) )

\* C8: in every persisted store state reachable by add and create commands
\* the entry counts of the partitions sum to the number of hashes in
\* seen_hashes.
C8_CountsMatchHashes ==
    StoreOnDisk(fs) =>
        SumCounts(PersistedDB(fs).Sitemaps) = Cardinality(PersistedDB(fs).URLHashes)

\* C8 witness: a persisted store with a partition record, after an add has
\* put an entry into a partition document.
C8_Witness ==
    /\ StoreOnDisk(fs)
    /\ Len(PersistedDB(fs).Sitemaps) >= 1
    /\ TotalEntries(fs) >= 1
    /\ \E i \in 1..Len(hist) : hist[i].cmd = "add" /\ hist[i].outcome = "Fatal"

\* C9 as stated: in every store state reachable by add and create commands
\* at most one partition has entry_count < CAPACITY, and it is the current
\* partition.
C9_Original ==
    \A db \in Stores : OnePartitionOpen(db)

\* C9 amended: the same holds in every store state reached without create
\* having been run on a store whose current partition was below capacity;
\* such a create leaves that partition behind, below capacity for good.
C9_OnePartitionOpenUnlessCreated ==
    ~earlyCreate => \A db \in Stores : OnePartitionOpen(db)

\* C9 witness: a create and an add have run, create never on a store with
\* an open current partition, and an add holds a store with a partition
\* below capacity in memory.
C9_Witness ==
    /\ ~earlyCreate
    /\ \E i \in 1..Len(hist) : hist[i].cmd = "create" /\ hist[i].outcome = "Done"
    /\ \E p \in Procs :
          /\ cmd[p] = "add"
          /\ pc[p] = "SaveDB"
          /\ \E i \in 1..Len(DB[p].Sitemaps) :
                DB[p].Sitemaps[i].URLCount < MAX_URLS_PER_SITEMAP

\* C10: an add that is rejected by policy or as a duplicate, or that fails
\* before the partition document is persisted, leaves the partition
\* documents, the store file and the index document as they were when the
\* store was loaded.
C10_RejectionTouchesNothing ==
    \A p \in Procs :
        ( /\ Ended(p) /\ cmd[p] = "add"
          /\ caller[p] = "add"
          /\ ~persisted[p] )
        => fs = snap[p]

\* C10 witness: an add failed in SaveSitemap while its partition document
\* and the index document existed.
C10_Witness ==
    \E p \in Procs :
        /\ Ended(p) /\ cmd[p] = "add"
        /\ outcome[p] = "PartitionIOError"
        /\ ~persisted[p]
        /\ Exists(fs, currentSitemap[p])
        /\ Exists(fs, IndexPath)

\* C11: when two add invocations with distinct allowed URLs run as
\* concurrent processes on one output directory and both have completed,
\* the persisted store holds both hashes and each URL is the location of
\* an entry in exactly one partition document: no update is lost.
C11_ConcurrentAddsBothRecorded ==
    \A p, q \in Procs :
        ( /\ p # q /\ hist = << >>
          /\ Ended(p) /\ Ended(q)
          /\ cmd[p] = "add" /\ cmd[q] = "add" /\ url[p] # url[q]
          /\ IsURLAllowed(config, ParseRobotsTxt(config, robotsTxt), url[p])
          /\ IsURLAllowed(config, ParseRobotsTxt(config, robotsTxt), url[q])
          /\ outcome[p] \notin IOErrors /\ outcome[q] \notin IOErrors
          /\ ~loadErr[p] /\ ~loadErr[q] )
        => /\ StoreOnDisk(fs)
           /\ { HashURL(url[p]), HashURL(url[q]) } \subseteq PersistedDB(fs).URLHashes
           /\ Cardinality(DocumentsWith(fs, url[p])) = 1
           /\ Cardinality(DocumentsWith(fs, url[q])) = 1

\* C12: under every interleaving of concurrent add invocations, no
\* partition document ever holds more than CAPACITY entries and no
\* partition's entry_count, persisted or in memory, exceeds CAPACITY.
C12_CapacityNeverExceeded ==
    /\ \A n \in PartitionNames(fs) : Len(fs[n].data) <= MAX_URLS_PER_SITEMAP
    /\ \A db \in Stores : \A i \in 1..Len(db.Sitemaps) :
            db.Sitemaps[i].URLCount <= MAX_URLS_PER_SITEMAP

\* C13: at every moment, also while invocations are saving, what is at
\* the final path of a partition document, of the store file or of the
\* index is absent or a complete document written by one save.
C13_FinalPathsAreComplete ==
    \A path \in DOMAIN fs : fs[path].ok

\* A finished add that stopped after its entry reached the partition
\* document and before the store was persisted.
StoppedAfterAppend(h) ==
    h.cmd = "add" /\ h.persisted /\ h.outcome \in { "Fatal", "StoreIOError" }

\* C14: when an add stops after the partition document is persisted and
\* before the store is, the document holds an entry whose hash the persisted
\* store lacks; a later add of the same URL is not rejected as a duplicate
\* and, when it reaches the partition document, the URL has a second entry.
\* No run in between repairs the store.
C14_GapAdmitsSecondEntry ==
    \A p \in Procs :
        /\ ( /\ Ended(p) /\ Accepted(p)
             /\ outcome[p] \in { "Fatal", "StoreIOError" } )
           => /\ DocumentsWith(fs, url[p]) # {}
              /\ StoreOnDisk(fs) => HashURL(url[p]) \notin PersistedDB(fs).URLHashes
        /\ ( /\ Ended(p) /\ cmd[p] = "add"
             /\ \E i \in 1..Len(hist) :
                    StoppedAfterAppend(hist[i]) /\ hist[i].url = url[p] )
           => /\ outcome[p] # "DuplicateURL"
              /\ ( /\ persisted[p] /\ ~loadErr[p]
                   /\ \A i \in 1..Len(hist) : ~hist[i].loadErr )
                 => Cardinality(EntriesOf(fs, url[p])) >= 2

C14_Witness ==
    \E p \in Procs :
        /\ Ended(p) /\ Accepted(p) /\ ~loadErr[p]
        /\ Len(hist) = 1 /\ StoppedAfterAppend(hist[1])
        /\ hist[1].url = url[p] /\ ~hist[1].loadErr
        /\ Cardinality(EntriesOf(fs, url[p])) = 2
        /\ HashURL(url[p]) \notin PersistedDB(fs).URLHashes

\* C15: when the current partition document exists and cannot be read or
\* parsed as add loads it, the add fails with PartitionIOError: it puts no
\* entry into a document, and the documents, the store file and the index
\* stay as they were.
C15_UnreadablePartitionFailsAdd ==
    \A p \in Procs :
        ( cmd[p] = "add" /\ loadErr[p] )
        => /\ ~persisted[p]
           /\ fs = snap[p]
           /\ Ended(p) => outcome[p] = "PartitionIOError"

\* The process has returned from SaveDB's rename and not yet changed its
\* Database.
JustSaved(p) ==
    \/ pc[p] \in { "GenerateSitemapIndex", "IndexRename" }
    \/ pc[p] = "NewSitemapManager" /\ caller[p] = "LoadDB"

C17_UnreadableStoreAborts ==
    [][ \A p \in Procs :
          ( pc[p] = "LoadDB" /\ pc'[p] # "LoadDB" /\ Exists(fs, DBPath) )
          => /\ fs' = fs /\ tmps' = tmps
             /\ \/ /\ pc'[p] = "Ended" /\ outcome'[p] = "StoreIOError"
                   /\ DB'[p] = DB[p]
                \/ /\ pc'[p] = "NewSitemapManager"
                   /\ fs[DBPath].ok /\ DB'[p] = PersistedDB(fs) ]_vars

C17_Witness ==
    \E p \in Procs :
        /\ Ended(p) /\ outcome[p] = "StoreIOError" /\ caller[p] = "none"
        /\ cmd[p] = "create"
        /\ StoreOnDisk(snap[p]) /\ Len(PersistedDB(snap[p]).Sitemaps) > 0
        /\ TotalEntries(snap[p]) > 0
        /\ fs = snap[p]

\* An add that has resolved its partition.
Resolved(p) ==
    /\ cmd[p] = "add" /\ caller[p] = "add"
    /\ pc[p] \in { "PartitionAppend", "SaveSitemapWrite", "SaveSitemapRename",
                   "StoreUpdate", "SaveDB", "Deadlock" }

\* C18: in every store, persisted or in memory, the k-th partition record
\* is named {prefix}_k.xml (k from 1), so no two records share a name; the
\* first add on a fresh store creates sitemap_1.xml and makes it current.
C18_PartitionsNamedInOrder ==
    /\ \A db \in Stores :
          /\ \A k \in 1..Len(db.Sitemaps) :
                db.Sitemaps[k].Filename = "sitemap_" \o ToString(k) \o ".xml"
          /\ \A j, k \in 1..Len(db.Sitemaps) :
                db.Sitemaps[j].Filename = db.Sitemaps[k].Filename => j = k
    /\ \A p \in Procs :
          ( Resolved(p) /\ PersistedDB(snap[p]) = EmptyDB )
          => /\ currentSitemap[p] = "sitemap_1.xml"
             /\ DB[p].CurrentSitemap = "sitemap_1.xml"
             /\ Len(DB[p].Sitemaps) = 1

C18_Witness ==
    \E p \in Procs :
        /\ cmd[p] = "create" /\ Ended(p) /\ outcome[p] = "Done"
        /\ Len(PersistedDB(fs).Sitemaps) = 2
        /\ PersistedDB(fs).Sitemaps[2].Filename = "sitemap_2.xml"
        /\ \E i \in 1..Len(hist) : hist[i].cmd = "add" /\ hist[i].sitemap = "sitemap_1.xml"

\* The names of the partition records, in order.
Names(db) == [ k \in 1..Len(db.Sitemaps) |-> db.Sitemaps[k].Filename ]

IsPrefix(s, t) == Len(s) <= Len(t) /\ \A k \in 1..Len(s) : s[k] = t[k]

\* C19: the partition records are append-only (none removed, renamed or
\* reordered), and a partition whose entry_count has reached CAPACITY is
\* frozen: its entry_count and the entry list of its document never change
\* again.
C19_AppendOnlyAndFrozen ==
    \A p \in Procs :
        /\ caller[p] \in { "add", "create" } =>
              /\ IsPrefix(Names(PersistedDB(snap[p])), Names(DB[p]))
              /\ StoreOnDisk(fs) =>
                    IsPrefix(Names(PersistedDB(snap[p])), Names(PersistedDB(fs)))
              /\ \A k \in 1..Len(PersistedDB(snap[p]).Sitemaps) :
                    PersistedDB(snap[p]).Sitemaps[k].URLCount >= MAX_URLS_PER_SITEMAP
                    => DB[p].Sitemaps[k] = PersistedDB(snap[p]).Sitemaps[k]
        /\ \A i \in 1..Len(hist) :
              ( /\ hist[i].cmd = "add" /\ hist[i].count >= MAX_URLS_PER_SITEMAP
                /\ cmd[p] = "add" /\ currentSitemap[p] = hist[i].sitemap
                /\ ~loadErr[p] )
              => ~persisted[p]

\* A create that ran to its end.
CreateDone(p) == Ended(p) /\ cmd[p] = "create" /\ outcome[p] = "Done"

\* C20: a successful create appends exactly one record, with entry_count 0,
\* and makes it current; the store is persisted and the index regenerated;
\* seen_hashes, the records there were and every partition document are as
\* before.
C20_CreateAppendsOneEmptyPartition ==
    \A p \in Procs :
        CreateDone(p) =>
            LET old == PersistedDB(snap[p])
                new == PersistedDB(fs)
                k   == Len(old.Sitemaps) + 1
            IN  /\ Len(new.Sitemaps) = k
                /\ SubSeq(new.Sitemaps, 1, k - 1) = old.Sitemaps
                /\ new.Sitemaps[k].URLCount = 0
                /\ new.CurrentSitemap = new.Sitemaps[k].Filename
                /\ new = DB[p]
                /\ new.URLHashes = old.URLHashes
                /\ Exists(fs, IndexPath) /\ fs[IndexPath] = Complete(IndexFor(new))
                /\ PartitionNames(fs) = PartitionNames(snap[p])
                /\ \A n \in PartitionNames(snap[p]) : fs[n] = snap[p][n]

C20_Witness ==
    \E p \in Procs :
        /\ CreateDone(p)
        /\ Len(PersistedDB(snap[p]).Sitemaps) = 1
        /\ Len(PersistedDB(fs).Sitemaps) = 2
        /\ PersistedDB(fs).Sitemaps[1] = PersistedDB(snap[p]).Sitemaps[1]
        /\ PartitionNames(snap[p]) # {} /\ TotalEntries(fs) = TotalEntries(snap[p])
        /\ TotalEntries(fs) > 0

\* C21: notification is started only when ping_on_update is set and only
\* after this add has persisted the partition document, the store and the
\* index; whatever becomes of the pings, an add that passed both checks and
\* met no I/O error returns success, and the persisted documents are those
\* it wrote.
C21_NotifyIsFireAndForget ==
    \A p \in Procs :
        /\ pinging[p] =>
              /\ config.PingOnUpdate /\ persisted[p]
              /\ StoreOnDisk(fs) /\ PersistedDB(fs) = DB[p]
              /\ Exists(fs, IndexPath) /\ fs[IndexPath] = Complete(IndexFor(DB[p]))
        /\ ( Ended(p) /\ Accepted(p) /\ config.PingOnUpdate
             /\ outcome[p] \notin IOErrors )
           => outcome[p] = "Done"

\* The step of the add sequence a position of AddURL belongs to:
\* 1 PolicyCheck, 2 DuplicateCheck, 3 PartitionResolve, 4 PartitionAppend,
\* 5 StoreUpdate, 6 StorePersist, 7 IndexRegenerate (with Notify); 0 for a
\* position that is none of them.
AddStep(at) ==
    CASE at = "PolicyCheck" -> 1
      [] at = "DuplicateCheck" -> 2
      [] at = "PartitionResolve" -> 3
      [] at \in { "PartitionAppend", "SaveSitemapWrite", "SaveSitemapRename" } -> 4
      [] at = "StoreUpdate" -> 5
      [] at \in { "SaveDB", "SaveDBWrite", "SaveDBRename" } -> 6
      [] at \in { "GenerateSitemapIndex", "IndexRename" } -> 7
      [] OTHER -> 0

ErrorKinds == { "PolicyRejected", "DuplicateURL" } \cup IOErrors

C23_CreatesExactlyWhenNeeded ==
    [][ \A p \in Procs :
          ( pc[p] = "PartitionResolve" /\ pc'[p] = "PartitionAppend" )
          => LET old == DB[p]
                 new == DB'[p]
                 n   == Len(old.Sitemaps)
             IN  IF n = 0 \/ CountOf(old, old.CurrentSitemap) >= MAX_URLS_PER_SITEMAP
                 THEN /\ Len(new.Sitemaps) = n + 1
                      /\ SubSeq(new.Sitemaps, 1, n) = old.Sitemaps
                      /\ new.Sitemaps[n + 1].URLCount = 0
                      /\ new.Sitemaps[n + 1].Filename \notin
                            { old.Sitemaps[k].Filename : k \in 1..n }
                      /\ new.CurrentSitemap = new.Sitemaps[n + 1].Filename
                      /\ new.URLHashes = old.URLHashes
                      /\ currentSitemap'[p] = new.CurrentSitemap
                 ELSE /\ new = old
                      /\ currentSitemap'[p] = old.CurrentSitemap ]_vars

C23_Witness ==
    \E p \in Procs :
        /\ pc[p] = "PartitionAppend"
        /\ Len(DB[p].Sitemaps) = 3
        /\ DB[p].Sitemaps[1].URLCount = 0
        /\ DB[p].Sitemaps[2].URLCount = MAX_URLS_PER_SITEMAP
        /\ PersistedDB(fs).CurrentSitemap = "sitemap_2.xml"
        /\ currentSitemap[p] = "sitemap_3.xml"

\* C24: after every add that has ended without an I/O error, each
\* partition record of the persisted store has as entry_count the number of
\* entries of its document on disk (0 when there is no document).
C24_CountsMatchDocuments ==
    \A p \in Procs :
        ( /\ Ended(p) /\ cmd[p] = "add"
          /\ outcome[p] \notin IOErrors /\ ~loadErr[p]
          /\ StoreOnDisk(fs) )
        => \A k \in 1..Len(PersistedDB(fs).Sitemaps) :
              PersistedDB(fs).Sitemaps[k].URLCount
                = Len(LoadSitemap(fs, PersistedDB(fs).Sitemaps[k].Filename))

\* The store has a record named filename.
HasRecord(db, filename) ==
    \E k \in 1..Len(db.Sitemaps) : db.Sitemaps[k].Filename = filename

\* C25: in every store, in memory or persisted, current_partition is empty
\* or the name of a partition record, and it is empty only while there is
\* no record; so the record NeedNewSitemap looks for is there, and the name
\* AddURL hands to UpdateSitemapInfo is the name of one record.
C25_CurrentNamesARecord ==
    /\ \A db \in Stores :
          /\ db.CurrentSitemap # "" => HasRecord(db, db.CurrentSitemap)
          /\ db.CurrentSitemap = "" <=> db.Sitemaps = << >>
    /\ \A p \in Procs :
          pc[p] = "StoreUpdate" =>
              Cardinality({ k \in 1..Len(DB[p].Sitemaps) :
                              DB[p].Sitemaps[k].Filename = currentSitemap[p] }) = 1

C25_Witness ==
    \E p \in Procs :
        /\ pc[p] = "StoreUpdate"
        /\ Len(DB[p].Sitemaps) = 2 /\ currentSitemap[p] = "sitemap_2.xml"
        /\ PersistedDB(fs).CurrentSitemap = "sitemap_2.xml"
        /\ Len(urlset[p]) = 1

\* The goroutine waits in a Lock call for the mutex.
WaitsForMu(t) == pc[t] \in { "AddURL.Lock", "SaveDB.Lock" }
WaitsForFileLock(t) == pc[t] \in { "LoadDB.Lock", "SaveSitemap.Lock" }

\* C26: DB.mu and fileLock are taken in one order by all methods of the
\* manager: two goroutines calling LoadDB (without a store file), SaveDB,
\* SaveSitemap or AddURL never each hold one of the mutexes while waiting
\* for the other.
C26_NoLockOrderCycle ==
    \A t1, t2 \in Procs :
        ~ ( /\ t1 # t2
            /\ fileLock[t1] /\ WaitsForMu(t1)
            /\ mu[t2] /\ WaitsForFileLock(t2) )

\* C27: once DownloadAndUpdate has returned there is a binary at the
\* executable path: the original one when it returned an error, and when
\* it returned nil after installing a newer release, the new one, with the
\* .backup file removed.
C27_ExecutableAlwaysThere ==
    upd.pc = "Returned" =>
        /\ upd.execPath # "absent"
        /\ upd.err = "error" => upd.execPath = "original"
        /\ ( upd.err = "nil" /\ upd.tagName = "newer" )
           => upd.execPath = "new" /\ upd.backupPath = "absent"
====
